---- MODULE Spec2Model ----
(***************************************************************************)
(* The tile rasterizer of puget-mesh-tiles as a state machine.             *)
(*                                                                         *)
(* Two versions of the render script are modelled, selected by `script`:   *)
(*   "api"  : src/scripts/render_raster_tiles.js (in-process render(),     *)
(*            bounding boxes, optional local glyph server)                 *)
(*   "memo" : src/unnamed/part_000, lines 1-157 (renderTileCompat with the *)
(*            memoized module / CLI strategy)                              *)
(* One run of main() is one behaviour.  The command line and the exports  *)
(* of the renderer module are fixed in the initial state; file contents    *)
(* and the outcome of every backend invocation are chosen at the moment    *)
(* the program reads them.  Errors of mkdirSync / writeFileSync under      *)
(* outdir are not modelled.                                                *)
(*                                                                         *)
(* Specifications:                                                         *)
(*   Spec         : a run of main(), with glyph requests arriving while a  *)
(*                  render is awaited                                      *)
(*   SpecLive     : the runs of the "api" script that do not stop while    *)
(*                  they can go on                                         *)
(*   SpecGlyph    : the request handler of the glyph server on a request,  *)
(*                  over a set of caches and request paths                 *)
(*   SpecStyle    : loadStyleWithMbtilesBasename on one serialized style   *)
(*                  and one data-source file name                          *)
(*   SpecBBox     : tileBBox on the tiles of the lowest zoom levels        *)
(*   SpecProgress : the progress lines of the render loop on long lists    *)
(*   SpecFetch    : fetch_glyphs.js on one style and one cache             *)
(***************************************************************************)
EXTENDS Integers, Sequences, FiniteSets, TLC

VARIABLES
  script,              \* which version of the script runs
  argv,                \* the required parameters present on the command line
  modHasFn,            \* whether the renderer module exports a usable callable
  pc,                  \* position of main() / renderTileCompat()
  exitCode,            \* <<>> while running, <<c>> once the process ended with code c
  styleLoaded,         \* the style document has been read and resolved
  glyphArgs,           \* optional glyph parameters and what the glyph dir holds
  glyphServer,         \* "none" | "listening" | "closed"
  styleGlyphs,         \* styleObj.glyphs: "original" | "override" | "local"
  lines,               \* result of reading + splitting the tile list
  noCoords,            \* the tile-list file held no coordinate line at all
  idx,                 \* 1-based position of the render loop in lines
  req,                 \* line of the pending render request (0: up-front probe)
  cachedModuleRender,  \* "null" | "function" | "undefined"
  cachedCliTemplate,   \* 0 (null) or the index of the memoized variant
  vi,                  \* variant about to be tried by detectCliTemplate
  tmpPng,              \* outPng of the current temp dir: <<>> absent, <<b>> bytes b
  runOk,               \* the last subprocess ended with status 0 and no error
  files,               \* files under outdir: path <<z,x,y>> |-> bytes
  log,                 \* history of backend / file-system events
  glyphServed,         \* glyph requests handled during this run
  listenPort,          \* port the OS gave the glyph server (0: no server)
  urlPort,             \* port in the rewritten glyphs URL (0: not rewritten)
  glyphWaiting,        \* the pending invocation waits for a glyph response
  openConns,           \* open client connections of the glyph server
  glyphFs,             \* handler: the files and directories it can see
  glyphReq,            \* handler: raw path segments of the last request
  glyphResp,           \* handler: what became of the last request
  styleDoc,            \* style resolution: the serialized style document
  styleRef,            \* style resolution: the data-source reference
  styleOut,            \* style resolution: the resolved text
  bbTile,              \* tileBBox: the tile <<z, x, y>> it is called with
  bbOut,               \* tileBBox: <<>> or the one box returned
  prLen,               \* progress: lines.length of a long tile list
  prIdx,               \* progress: lines the loop has gone through
  prWritten,           \* progress: tiles rendered and written so far
  prOut,               \* progress: the progress lines printed so far
  ftStyle,             \* fetch: the --style argument and what the file holds
  ftRanges,            \* fetch: the ranges of --ranges, in order
  ftFs,                \* fetch: the targets <<stack, range>> present under outDir
  ftPc,                \* fetch: position of main() of fetch_glyphs
  ftExit,              \* fetch: <<>> while running, <<c>> once ended with code c
  ftStacks,            \* fetch: result of extractFontStacks
  ftSi,                \* fetch: 1-based index of the outer loop (stack)
  ftRi,                \* fetch: 1-based index of the inner loop (range), 0 at its head
  ftResults,           \* fetch: the results array
  ftOps,               \* fetch: history of fetches and file-system writes
  ftManifest           \* fetch: the manifests written, in order

\* state of main() and of the rendering strategies
mainVars == << script, argv, modHasFn, pc, exitCode, styleLoaded, glyphArgs,
               glyphServer, styleGlyphs, lines, noCoords, idx, req,
               cachedModuleRender, cachedCliTemplate, vi, tmpPng, runOk, files,
               log, glyphServed, listenPort, urlPort, glyphWaiting,
               openConns >>

\* the glyph server seen from the network
netVars == << listenPort, urlPort, glyphWaiting, openConns >>

\* state of the request handler, of the style resolution and of tileBBox,
\* each taken alone
handlerVars == << glyphFs, glyphReq, glyphResp >>
styleVars == << styleDoc, styleRef, styleOut >>
bboxVars == << bbTile, bbOut >>

\* state of the render loop over a long list, followed for its progress lines
progressVars == << prLen, prIdx, prWritten, prOut >>

\* state of main() of fetch_glyphs
fetchIn == << ftStyle, ftRanges >>
fetchVars == << fetchIn, ftFs, ftPc, ftExit, ftStacks, ftSi, ftRi, ftResults,
                ftOps, ftManifest >>

pureVars == << handlerVars, styleVars, bboxVars, progressVars, fetchVars >>

vars == << mainVars, pureVars >>

----------------------------------------------------------------------------
(* Bounds of the model *)

\* longest tile-list file content, in tokens
MaxLen == 4

(* Program constants *)

\* number of argument layouts tried by detectCliTemplate
NumVariants == 6

\* parseInt of a non-numeric string; encoded as a negative number
NaN == -1

Scripts == {"api", "memo"}

Required == {"style", "mbtiles", "tilelist", "outdir"}

\* the fixed probe tile of detectCliTemplate
ProbeTile == <<8, 0, 0>>

\* ports `srv.listen(0, '127.0.0.1')` may be given by the OS
Ports == {49152, 49153}

----------------------------------------------------------------------------
(* Tile list text.  A file is a sequence of tokens: a line break, a blank, *)
(* or the text of one coordinate (the third one lies outside its zoom).    *)

NL == "\n"
SP == " "
CoordTokens == {"8,40,90", "8,40,91", "8,256,0"}
Tokens == {NL, SP} \cup CoordTokens
Whitespace == {NL, SP}

\* String.prototype.trim over a token sequence
RECURSIVE TrimLeft(_)
TrimLeft(s) ==
  IF s = <<>> THEN <<>>
  ELSE IF Head(s) \in Whitespace THEN TrimLeft(Tail(s)) ELSE s

RECURSIVE TrimRight(_)
TrimRight(s) ==
  IF s = <<>> THEN <<>>
  ELSE IF s[Len(s)] \in Whitespace THEN TrimRight(SubSeq(s, 1, Len(s) - 1))
       ELSE s

Trim(s) == TrimRight(TrimLeft(s))

\* String.prototype.split(/\r?\n/): always at least one (possibly empty) piece
RECURSIVE SplitFrom(_, _)
SplitFrom(s, cur) ==
  IF s = <<>> THEN << cur >>
  ELSE IF Head(s) = NL THEN << cur >> \o SplitFrom(Tail(s), <<>>)
       ELSE SplitFrom(Tail(s), Append(cur, Head(s)))

SplitLines(s) == SplitFrom(s, <<>>)

\* fs.readFileSync(tilelist,'utf8').trim().split(/\r?\n/)
ReadLines(content) == SplitLines(Trim(content))

\* !line.trim()
IsBlank(line) == Trim(line) = <<>>

\* parseInt(s, 10) of the three comma-separated fields of a coordinate text
CoordOf(tok) ==
  CASE tok = "8,40,90" -> <<8, 40, 90>>
    [] tok = "8,40,91" -> <<8, 40, 91>>
    [] tok = "8,256,0" -> <<8, 256, 0>>
    [] OTHER -> <<NaN, NaN, NaN>>

\* line.split(',').map(s => parseInt(s, 10)), first three fields
ParseLine(line) ==
  LET t == Trim(line) IN
  IF t = <<>> THEN <<NaN, NaN, NaN>> ELSE CoordOf(t[1])

\* tile-list files considered: at most one coordinate per line
SeqsUpTo(n) == UNION { [1..k -> Tokens] : k \in 0..n }

WellFormed(content) ==
  \A i \in 1..Len(SplitLines(content)) :
    Cardinality({ j \in 1..Len(SplitLines(content)[i]) :
                    SplitLines(content)[i][j] \in CoordTokens }) <= 1

Contents == { c \in SeqsUpTo(MaxLen) : WellFormed(c) }

\* path.join(outdir, String(z), String(x)) + `${y}.png`
PathOf(tile) == tile

----------------------------------------------------------------------------
(* Event history *)

\* op: "lookup" (the module is asked for its callable), "call" / "return" /
\* "throw" (an in-process invocation starts / resolves / throws or rejects),
\* "detect" (detectCliTemplate is entered), "trial" (a subprocess of
\* detectCliTemplate), "run" (the subprocess of the memoized template),
\* "write" (a PNG is written under outdir), "fail" (the render request rejects)
Event(op, r, tile, v, b) ==
  [op |-> op, req |-> r, tile |-> tile, v |-> v, bytes |-> b]

\* bytes produced by the backend invocation being logged now: unique per call
FreshBytes == Len(log) + 1

\* an empty buffer / zero-length file
EmptyBytes == 0

TileOfReq(r) == ParseLine(lines[IF r = 0 THEN 1 ELSE r])

----------------------------------------------------------------------------
(* The request handler of the glyph server.  Texts (URL segments, file     *)
(* names) are sequences of tokens, a path is a sequence of segments, a     *)
(* request is the sequence of the raw segments of req.url.                 *)

\* most comma-separated entries in the font stack of a request
MaxFonts == 2

\* glyph requests handled during one run of main()
MaxGlyphRequests == 1

SLASH == "/"
COMMA == ","
DOTDOT == ".."

\* an escape sequence that decodeURIComponent rejects, such as a lone "%"
BadEscape == "%"

\* path.resolve(glyphsDir), and a directory next to it whose name starts alike
AbsGlyphs == << <<"glyphs">> >>
Sibling == << <<"glyphs", "-old">> >>

\* what must follow the font stack for the URL template {fontstack}/{range}.pbf
RangeFile == <<"0-255", ".pbf">>

\* second segments of the requests considered
Ranges == { RangeFile, <<"0-255">>, <<"sub">> }

\* comma-separated entries of the first segment, as sent (percent-encoded)
FontTexts ==
  { <<"NotoSans">>, <<"Arial">>, <<"%20", "Arial">>, <<>>, << DOTDOT >>,
    << BadEscape >>, << DOTDOT, "%2F", "glyphs", "-old" >> }

\* Array.prototype.join(sep) over texts
RECURSIVE JoinWith(_, _)
JoinWith(texts, sep) ==
  IF texts = <<>> THEN <<>>
  ELSE IF Len(texts) = 1 THEN texts[1]
       ELSE texts[1] \o << sep >> \o JoinWith(Tail(texts), sep)

RawStacks ==
  { JoinWith(fonts, COMMA) :
      fonts \in UNION { [1..k -> FontTexts] : k \in 1..MaxFonts } }

\* requests considered: one, two or three raw segments, or none
Requests ==
  { <<>> } \cup
  UNION { { << s >>, << s, r >>, << s, r, r >> } : s \in RawStacks, r \in Ranges }

\* the glyph cache and its surroundings: a set of [path, kind]
File(dir, name) == [path |-> dir \o << name >>, kind |-> "file"]
Dir(dir, name) == [path |-> dir \o << name >>, kind |-> "dir"]

CacheEntries ==
  { File(AbsGlyphs \o << <<"NotoSans">> >>, RangeFile),
    File(AbsGlyphs \o << <<"Arial">> >>, RangeFile),
    File(AbsGlyphs \o << <<"NotoSans", COMMA, "Arial">> >>, RangeFile),
    Dir(AbsGlyphs \o << <<"Arial">> >>, <<"sub">>) }

\* a file outside the cache root, in the sibling directory
Outside == File(Sibling, RangeFile)

Caches == { S \cup { Outside } : S \in SUBSET CacheEntries }

IsPrefix(p, s) == Len(p) <= Len(s) /\ SubSeq(s, 1, Len(p)) = p

\* fs.existsSync(p): an entry, or a directory on the way to one
Exists(fs, p) == \E e \in fs : IsPrefix(p, e.path)

\* whether p can be read as a regular file
IsFile(fs, p) == \E e \in fs : e.path = p /\ e.kind = "file"

\* String.prototype.split(sep): always at least one (possibly empty) piece
RECURSIVE SplitAt(_, _, _)
SplitAt(s, sep, cur) ==
  IF s = <<>> THEN << cur >>
  ELSE IF Head(s) = sep THEN << cur >> \o SplitAt(Tail(s), sep, <<>>)
       ELSE SplitAt(Tail(s), sep, Append(cur, Head(s)))

\* removal of empty and ".." segments, never climbing above "/"
RECURSIVE Resolved(_, _)
Resolved(segs, acc) ==
  IF segs = <<>> THEN acc
  ELSE IF Head(segs) = <<>> THEN Resolved(Tail(segs), acc)
  ELSE IF Head(segs) = << DOTDOT >>
         THEN Resolved(Tail(segs),
                       IF acc = <<>> THEN <<>> ELSE SubSeq(acc, 1, Len(acc) - 1))
  ELSE Resolved(Tail(segs), Append(acc, Head(segs)))

\* new URL(req.url, base).pathname.split('/').filter(Boolean): the URL parser
\* has removed the dot segments, filter drops the empty ones
UrlParts(url) == Resolved(url, <<>>)

\* decodeURIComponent of one token
DecodeToken(t) ==
  CASE t = "%2F" -> SLASH
    [] t = "%20" -> SP
    [] OTHER -> t

\* decodeURIComponent throws URIError
Malformed(seg) == \E i \in 1..Len(seg) : seg[i] = BadEscape

DecodeURIComponent(seg) == [i \in 1..Len(seg) |-> DecodeToken(seg[i])]

\* faulty variant: the individual fonts are tried before the exact stack
TryStacks_FontsFirst(fontstack) ==
  SelectSeq([i \in 1..Len(SplitAt(fontstack, COMMA, <<>>) \o << fontstack >>) |->
               Trim((SplitAt(fontstack, COMMA, <<>>) \o << fontstack >>)[i])],
            LAMBDA s : s # <<>>)

\* [fontstack, ...fontstack.split(',')].map(s => s.trim()).filter(Boolean)
TryStacks(fontstack) ==
  SelectSeq([i \in 1..Len(<< fontstack >> \o SplitAt(fontstack, COMMA, <<>>)) |->
               Trim((<< fontstack >> \o SplitAt(fontstack, COMMA, <<>>))[i])],
            LAMBDA s : s # <<>>)

\* path.normalize(path.join(absGlyphs, s, range))
SafePath(s, range) ==
  Resolved(AbsGlyphs \o SplitAt(s, SLASH, <<>>) \o << range >>, <<>>)

\* the text of an absolute path
RECURSIVE PathText(_)
PathText(p) ==
  IF p = <<>> THEN <<>> ELSE << SLASH >> \o Head(p) \o PathText(Tail(p))

\* safe.startsWith(absGlyphs): a test on the text of the paths
StartsWithRoot(safe) == IsPrefix(PathText(AbsGlyphs), PathText(safe))

\* the loop over tryStacks: << filePath >>, or << >> when filePath stays null
RECURSIVE FindFile(_, _, _)
FindFile(fs, stacks, range) ==
  IF stacks = <<>> THEN <<>>
  ELSE LET safe == SafePath(Head(stacks), range) IN
       IF ~StartsWithRoot(safe) THEN FindFile(fs, Tail(stacks), range)
       ELSE IF Exists(fs, safe) THEN << safe >>
       ELSE FindFile(fs, Tail(stacks), range)

\* what became of a request: the status sent (0: none), the path handed to
\* fs.createReadStream (<<>>: none), and whether the process was brought down
Response(status, opened, crashed) ==
  [status |-> status, opened |-> opened, crashed |-> crashed]

NoResponse == Response(0, <<>>, FALSE)

\* fs.createReadStream(filePath).pipe(res): the contents are sent with status
\* 200; a path that cannot be read makes the stream emit 'error' after the
\* handler has returned, outside its try/catch and with no listener: the
\* error is thrown as an uncaught exception
Stream(fs, filePath) ==
  IF IsFile(fs, filePath)
    THEN Response(200, filePath, FALSE)
    ELSE Response(0, filePath, TRUE)

\* the callback of http.createServer
HandleGlyph(fs, url) ==
  LET parts == UrlParts(url) IN
  IF Len(parts) # 2 THEN Response(404, <<>>, FALSE)
  ELSE IF Malformed(parts[1]) THEN Response(500, <<>>, FALSE)
  ELSE LET found == FindFile(fs, TryStacks(DecodeURIComponent(parts[1])), parts[2])
       IN IF found = <<>> THEN Response(404, <<>>, FALSE)
          ELSE Stream(fs, found[1])

\* whether a request can bring the process down, over all caches and requests
CrashOutcomes == { HandleGlyph(fs, u).crashed : fs \in Caches, u \in Requests }

----------------------------------------------------------------------------
(* Style resolution.  The serialized style and the file name of the data   *)
(* source are texts over a few pieces; the placeholder is the text made of *)
(* the two pieces "MBTILES_" and "PATH".                                   *)

\* longest serialized style, in pieces
MaxDoc == 4

\* longest data-source file name (without its suffix), in pieces
MaxName == 2

\* the text matched by /MBTILES_PATH/g
Placeholder == <<"MBTILES_", "PATH">>

\* the replacement pattern of String.prototype.replace for the matched text
MatchPattern == "$&"

\* the suffix removed by /\.mbtiles$/i
Suffix == ".mbtiles"

Pieces == {"MBTILES_", "PATH", "x", MatchPattern}

TextsUpTo(n) == UNION { [1..k -> Pieces] : k \in 0..n }

\* JSON.stringify(styleJson)
Docs == TextsUpTo(MaxDoc)

\* path.basename(path.resolve(mbtiles))
Names ==
  TextsUpTo(MaxName) \cup { t \o << Suffix >> : t \in TextsUpTo(MaxName) }

\* basename.replace(/\.mbtiles$/i, '')
ServiceName(basename) ==
  IF basename # <<>> /\ basename[Len(basename)] = Suffix
    THEN SubSeq(basename, 1, Len(basename) - 1)
    ELSE basename

\* the reference put into the style: render_raster_tiles.js strips the
\* suffix, part_000 uses the file name as it is
Reference(basename) ==
  IF script = "api" THEN ServiceName(basename) ELSE basename

\* the replacement string as String.prototype.replace inserts it: "$&" stands
\* for the matched text
RECURSIVE Expand(_)
Expand(r) ==
  IF r = <<>> THEN <<>>
  ELSE (IF Head(r) = MatchPattern THEN Placeholder ELSE << Head(r) >>)
       \o Expand(Tail(r))

\* whether text t has the placeholder at position i
MatchAt(t, i) ==
  i + Len(Placeholder) - 1 <= Len(t) /\
  SubSeq(t, i, i + Len(Placeholder) - 1) = Placeholder

Contains(t) == \E i \in 1..Len(t) : MatchAt(t, i)

\* faulty variant: without the g flag only the first match is replaced
RECURSIVE Replace_FirstOnly(_, _)
Replace_FirstOnly(t, r) ==
  IF t = <<>> THEN <<>>
  ELSE IF MatchAt(t, 1)
         THEN Expand(r) \o SubSeq(t, Len(Placeholder) + 1, Len(t))
         ELSE << Head(t) >> \o Replace_FirstOnly(Tail(t), r)

\* text.replace(/MBTILES_PATH/g, r): one pass from left to right over the
\* original text; what is inserted is not scanned again
RECURSIVE Replace(_, _)
Replace(t, r) ==
  IF t = <<>> THEN <<>>
  ELSE IF MatchAt(t, 1)
         THEN Expand(r) \o Replace(SubSeq(t, Len(Placeholder) + 1, Len(t)), r)
         ELSE << Head(t) >> \o Replace(Tail(t), r)

\* loadStyleWithMbtilesBasename, on the serialized style
ResolveStyle(doc, basename) == Replace(doc, Reference(basename))

----------------------------------------------------------------------------
(* tileBBox.  Degrees are fixed-point numbers in units of 10^-6 degree.    *)
(* With n = 2^z a power of two up to MercatorGrid the longitudes are       *)
(* exact; the latitude (180/pi) * atan(sinh(pi * m)) is tabulated at the   *)
(* arguments m = k / MercatorGrid, rounded to the unit.  The rounding of   *)
(* IEEE doubles is not modelled.                                           *)

\* largest zoom of the tiles tileBBox is applied to
MaxZoom == 3

\* finest division of the Mercator argument the table covers: 2^5
MercatorGrid == 32

\* 360 and 180 degrees in units
Deg360 == 360000000
Deg180 == 180000000

\* (180 / Math.PI) * Math.atan(Math.sinh(Math.PI * k / 32)), k = 0..32
LatTable ==
  << 5615986, 11178402, 16636192, 21943046, 27059126, 31952162, 36597889,
     40979898, 45089036, 48922499, 52482780, 55776573, 58813742, 61606396,
     64168107, 66513260, 68656555, 70612614, 72395706, 74019543, 75497157,
     76840816, 78061989, 79171335, 80178713, 81093214, 81923186, 82676285,
     83359511, 83979259, 84541361, 85051129 >>

\* atan(sinh(.)) is odd: the latitude at argument k / 32, k in -32..32
LatAt(k) ==
  IF k = 0 THEN 0
  ELSE IF k > 0 THEN LatTable[k] ELSE 0 - LatTable[0 - k]

\* (x / n) * 360 - 180
Lon(n, x) == (Deg360 \div n) * x - Deg180

\* (180 / Math.PI) * Math.atan(Math.sinh(Math.PI * (1 - (2 * y) / n)))
Lat(n, y) == LatAt(MercatorGrid - 2 * y * (MercatorGrid \div n))

\* faulty variant: the two latitudes change places in the result
tileBBox_Swapped(z, x, y) ==
  LET n == 2 ^ z IN
  << Lon(n, x), Lat(n, y), Lon(n, x + 1), Lat(n, y + 1) >>

\* [lonLeft, latBottom, lonRight, latTop]
tileBBox(z, x, y) ==
  LET n == 2 ^ z
      lonLeft == Lon(n, x)
      lonRight == Lon(n, x + 1)
      latTop == Lat(n, y)
      latBottom == Lat(n, y + 1)
  IN << lonLeft, latBottom, lonRight, latTop >>

\* the tiles of zoom 0..MaxZoom that satisfy the TileCoordinate invariant
ValidTiles ==
  { t \in (0..MaxZoom) \X (0..(2 ^ MaxZoom - 1)) \X (0..(2 ^ MaxZoom - 1)) :
      t[2] < 2 ^ t[1] /\ t[3] < 2 ^ t[1] }

----------------------------------------------------------------------------
(* Initial state: the module-level state of the script before main() *)

\* the variables of the request handler while main() is followed
HandlerAtRest ==
  /\ glyphFs = {}
  /\ glyphReq = <<>>
  /\ glyphResp = NoResponse

\* the variables of the style resolution while something else is followed
StyleAtRest ==
  /\ styleDoc = <<>>
  /\ styleRef = <<>>
  /\ styleOut = <<>>

\* no glyph server yet: no port, no URL rewritten, no connection
NoNetwork ==
  /\ listenPort = 0
  /\ urlPort = 0
  /\ glyphWaiting = FALSE
  /\ openConns = 0

\* no call of tileBBox is followed
BBoxAtRest ==
  /\ bbTile = <<>>
  /\ bbOut = <<>>

\* no long list is followed
ProgressAtRest ==
  /\ prLen = 0
  /\ prIdx = 0
  /\ prWritten = 0
  /\ prOut = <<>>

\* fetch_glyphs is not run
FetchAtRest ==
  /\ ftStyle = [given |-> FALSE, readable |-> FALSE, layers |-> <<>>]
  /\ ftRanges = <<>>
  /\ ftFs = {}
  /\ ftPc = "start"
  /\ ftExit = <<>>
  /\ ftStacks = <<>>
  /\ ftSi = 0
  /\ ftRi = 0
  /\ ftResults = <<>>
  /\ ftOps = <<>>
  /\ ftManifest = <<>>

\* the pure functions, the long loop and fetch_glyphs are not followed
PureAtRest ==
  /\ HandlerAtRest
  /\ StyleAtRest
  /\ BBoxAtRest
  /\ ProgressAtRest
  /\ FetchAtRest

Init ==
  /\ script \in Scripts
  /\ argv \in SUBSET Required
  /\ modHasFn \in BOOLEAN
  /\ pc = "start"
  /\ exitCode = <<>>
  /\ styleLoaded = FALSE
  /\ glyphArgs = [dir |-> FALSE, pbf |-> FALSE, url |-> FALSE]
  /\ glyphServer = "none"
  /\ styleGlyphs = "original"
  /\ lines = <<>>
  /\ noCoords = FALSE
  /\ idx = 0
  /\ req = 0
  /\ cachedModuleRender = "null"
  /\ cachedCliTemplate = 0
  /\ vi = 0
  /\ tmpPng = <<>>
  /\ runOk = FALSE
  /\ files = <<>>
  /\ log = <<>>
  /\ glyphServed = 0
  /\ NoNetwork
  /\ PureAtRest

----------------------------------------------------------------------------
(* How a render request ends in main() *)

\* process.exit(code)
Exit(code) ==
  /\ pc' = "exited"
  /\ exitCode' = << code >>

\* faulty variant: the probe's catch reports the error and falls into the loop
OnProbeFailure_Continue ==
  /\ pc' = "loop"
  /\ exitCode' = exitCode
  /\ idx' = 1
  /\ files' = files

\* catch around the up-front probe: report and process.exit(1)
OnProbeFailure ==
  /\ Exit(1)
  /\ UNCHANGED << idx, files >>

\* faulty variant: a failed tile is skipped and the loop goes on
OnLoopFailure_Skip ==
  /\ pc' = "loop"
  /\ exitCode' = exitCode
  /\ idx' = idx + 1
  /\ files' = files

\* a throw inside the render loop reaches main().catch: process.exit(1)
OnLoopFailure ==
  /\ Exit(1)
  /\ UNCHANGED << idx, files >>

\* the awaited render request of line req rejected, after events evs
Fail(evs) ==
  /\ log' = log \o evs \o << Event("fail", req, TileOfReq(req), 0, EmptyBytes) >>
  /\ IF req = 0 THEN OnProbeFailure ELSE OnLoopFailure

\* fs.mkdirSync(dir) + fs.writeFileSync(path.join(dir, `${y}.png`), png)
WriteTile(tile, b) == (PathOf(tile) :> b) @@ files

\* faulty variant: the probe consumes the first line, the loop starts after it
AfterProbe_ConsumesFirst(evs, b) ==
  /\ log' = log \o evs
  /\ files' = files
  /\ idx' = 2

\* the probe's result is dropped and the loop starts at the first line
AfterProbe(evs, b) ==
  /\ log' = log \o evs
  /\ files' = files
  /\ idx' = 1

\* the loop body after its await: write the PNG, move to the next line
AfterTile(evs, b) ==
  /\ log' = log \o evs \o << Event("write", req, TileOfReq(req), 0, b) >>
  /\ files' = WriteTile(TileOfReq(req), b)
  /\ idx' = idx + 1

\* the awaited render request of line req resolved with bytes b, after events evs
Complete(evs, b) ==
  /\ IF req = 0 THEN AfterProbe(evs, b) ELSE AfterTile(evs, b)
  /\ pc' = "loop"
  /\ exitCode' = exitCode

----------------------------------------------------------------------------
(* main(): argument check, style, glyph server, tile list *)

\* faulty variant: only --style is checked
MissingRequired_StyleOnly(a) == "style" \notin a

\* `!style || !mbtiles || !tilelist || !outdir`
MissingRequired(a) == \E p \in Required : p \notin a

\* parseArgs + the required-parameter check
CheckArgs ==
  /\ pc = "start"
  /\ IF MissingRequired(argv)
       THEN Exit(2)
       ELSE /\ pc' = "style"
            /\ exitCode' = exitCode
  /\ UNCHANGED << pureVars, netVars, glyphServed, runOk, script, argv,
                  modHasFn,
                  styleLoaded, glyphArgs, glyphServer, styleGlyphs, lines,
                  noCoords, idx, req, cachedModuleRender, cachedCliTemplate,
                  vi, tmpPng, files, log >>

\* read + resolve the style; a read or JSON error reaches main().catch
LoadStyle ==
  /\ pc = "style"
  /\ \E ok \in BOOLEAN :
       IF ok
         THEN /\ styleLoaded' = TRUE
              /\ pc' = IF script = "api" THEN "glyphs" ELSE "tilelist"
              /\ exitCode' = exitCode
         ELSE /\ styleLoaded' = FALSE
              /\ Exit(1)
  /\ UNCHANGED << pureVars, netVars, glyphServed, runOk, script, argv,
                  modHasFn,
                  glyphArgs, glyphServer, styleGlyphs, lines, noCoords, idx,
                  req, cachedModuleRender, cachedCliTemplate, vi, tmpPng,
                  files, log >>

\* the glyph server is started iff glyphsDir is given and holds some .pbf
ServerStarted(g) == g.dir /\ g.pbf

\* styleObj.glyphs after the glyph block
GlyphsAfter(g) ==
  IF g.dir
    THEN IF g.pbf THEN "local" ELSE "original"
    ELSE IF g.url THEN "override" ELSE "original"

\* port the server listens on once `srv.listen(0, ...)` has called back
ListenPort(g, port) == IF ServerStarted(g) THEN port ELSE 0

\* faulty variant: the URL is built with a fixed port
UrlPort_Fixed(g, port) ==
  IF GlyphsAfter(g) = "local" THEN 49152 ELSE 0

\* port of `http://127.0.0.1:${port}/{fontstack}/{range}.pbf`, with
\* port = glyphServer.address().port
UrlPort(g, port) ==
  IF GlyphsAfter(g) = "local" THEN ListenPort(g, port) ELSE 0

\* optional glyph parameters: scan the glyph dir, start the server, rewrite glyphs
SetupGlyphs ==
  /\ pc = "glyphs"
  /\ script = "api"
  /\ \E d \in BOOLEAN, p \in BOOLEAN, u \in BOOLEAN, port \in Ports :
       LET g == [dir |-> d, pbf |-> d /\ p, url |-> u] IN
       /\ glyphArgs' = g
       /\ glyphServer' = IF ServerStarted(g) THEN "listening" ELSE "none"
       /\ listenPort' = ListenPort(g, port)
       /\ styleGlyphs' = GlyphsAfter(g)
       /\ urlPort' = UrlPort(g, port)
  /\ pc' = "tilelist"
  /\ UNCHANGED << pureVars, glyphWaiting, openConns, glyphServed, runOk,
                  script, argv, modHasFn,
                  exitCode, styleLoaded, lines, noCoords, idx, req,
                  cachedModuleRender, cachedCliTemplate, vi, tmpPng, files,
                  log >>

\* `if (lines.length === 0)`: only render_raster_tiles.js has the check
EmptyCheck(ls) == script = "api" /\ Len(ls) = 0

\* read the tile list; a read error reaches main().catch
ReadTileList ==
  /\ pc = "tilelist"
  /\ \/ \E content \in Contents :
          LET ls == ReadLines(content) IN
          /\ lines' = ls
          /\ noCoords' = (\A i \in 1..Len(content) : content[i] \notin CoordTokens)
          /\ IF EmptyCheck(ls)
               THEN Exit(2)
               ELSE /\ pc' = "probe"
                    /\ exitCode' = exitCode
     \/ /\ Exit(1)
        /\ UNCHANGED << lines, noCoords >>
  /\ UNCHANGED << pureVars, netVars, glyphServed, runOk, script, argv,
                  modHasFn,
                  styleLoaded, glyphArgs, glyphServer, styleGlyphs, idx, req,
                  cachedModuleRender, cachedCliTemplate, vi, tmpPng, files,
                  log >>

----------------------------------------------------------------------------
(* The render requests of main(): the up-front probe and the loop *)

\* getRenderFn(): the callable is found or the lookup throws
LookupEvent(r) == Event("lookup", r, TileOfReq(r), 0, EmptyBytes)

\* the in-process callable is invoked (the returned promise is pending)
CallEvent(r) == Event("call", r, TileOfReq(r), 0, EmptyBytes)

\* api: getRenderFn() + renderFn(...) for lines[0]; memo: renderTileCompat(...)
Probe ==
  /\ pc = "probe"
  /\ req' = 0
  /\ IF script = "api"
       THEN IF modHasFn
              THEN /\ log' = log \o << LookupEvent(0), CallEvent(0) >>
                   /\ pc' = "pending"
                   /\ UNCHANGED << exitCode, idx, files >>
              ELSE Fail(<< LookupEvent(0) >>)
       ELSE /\ pc' = IF Len(lines) > 0 THEN "rtc" ELSE "loop"
            /\ idx' = IF Len(lines) > 0 THEN idx ELSE 1
            /\ UNCHANGED << exitCode, files, log >>
  /\ UNCHANGED << pureVars, netVars, glyphServed, runOk, script, argv,
                  modHasFn,
                  styleLoaded, glyphArgs, glyphServer, styleGlyphs, lines,
                  noCoords, cachedModuleRender, cachedCliTemplate, vi,
                  tmpPng >>

\* faulty variant: the render call is not awaited, the next line is taken up
\* while the previous invocation is still pending
LoopMayStart_NoAwait(i) ==
  \/ pc = "loop" /\ i = idx
  \/ pc = "pending" /\ req >= 1 /\ i = idx + 1

\* the loop may take up line i: every earlier iteration has finished its await
LoopMayStart(i) == pc = "loop" /\ i = idx

\* faulty variant: blank lines are not skipped
Skips_Never(line) == FALSE

\* `if (!line.trim()) continue;`
Skips(line) == IsBlank(line)

\* one blank line of the list is passed over
LoopSkip ==
  /\ LoopMayStart(idx)
  /\ idx <= Len(lines)
  /\ Skips(lines[idx])
  /\ idx' = idx + 1
  /\ UNCHANGED << pureVars, netVars, glyphServed, runOk, script, argv,
                  modHasFn, pc,
                  exitCode, styleLoaded, glyphArgs, glyphServer, styleGlyphs,
                  lines, noCoords, req, cachedModuleRender, cachedCliTemplate,
                  vi, tmpPng, files, log >>

\* the loop body up to its await: parse the line and issue the render request
LoopRender ==
  /\ \E i \in 1..Len(lines) :
       /\ LoopMayStart(i)
       /\ ~Skips(lines[i])
       /\ req' = i
       /\ idx' = i
       /\ IF script = "api"
            THEN /\ log' = log \o << CallEvent(i) >>
                 /\ pc' = "pending"
            ELSE /\ log' = log
                 /\ pc' = "rtc"
  /\ UNCHANGED << pureVars, netVars, glyphServed, runOk, script, argv,
                  modHasFn,
                  exitCode, styleLoaded, glyphArgs, glyphServer, styleGlyphs,
                  lines, noCoords, cachedModuleRender, cachedCliTemplate, vi,
                  tmpPng, files >>

\* glyphServer.close() after the loop, errors swallowed
CloseGlyphServer(g) == IF g = "listening" THEN "closed" ELSE g

\* the N of `Done. Wrote ${lines.length} tiles to ${outdir}`
ReportedCount(ls) == Len(ls)

\* the final report; the field v holds the number printed
DoneEvent(ls) == Event("done", 0, <<NaN, NaN, NaN>>, ReportedCount(ls), EmptyBytes)

\* the loop is over: "Done. Wrote ...", close the glyph server, main() returns
LoopDone ==
  /\ pc = "loop"
  /\ idx > Len(lines)
  /\ pc' = "returned"
  /\ log' = log \o << DoneEvent(lines) >>
  /\ glyphServer' = CloseGlyphServer(glyphServer)
  /\ UNCHANGED << pureVars, netVars, glyphServed, runOk, script, argv,
                  modHasFn,
                  exitCode, styleLoaded, glyphArgs, styleGlyphs, lines,
                  noCoords, idx, req, cachedModuleRender, cachedCliTemplate,
                  vi, tmpPng, files >>

\* nothing keeps the event loop alive: no listening server, no open socket
EventLoopEmpty == glyphServer # "listening" /\ openConns = 0

\* main() has returned and nothing keeps the event loop alive: exit code 0
ProcessExit ==
  /\ pc = "returned"
  /\ EventLoopEmpty
  /\ Exit(0)
  /\ UNCHANGED << pureVars, netVars, glyphServed, runOk, script, argv,
                  modHasFn,
                  styleLoaded, glyphArgs, glyphServer, styleGlyphs, lines,
                  noCoords, idx, req, cachedModuleRender, cachedCliTemplate,
                  vi, tmpPng, files, log >>

----------------------------------------------------------------------------
(* renderTileCompat (memo) and the in-process invocation *)

\* faulty variant: the export shapes are tested wrongly, the callable is missed
ModuleAfterLookup_NotFound(c) == IF c = "null" THEN "null" ELSE c

\* `if (cachedModuleRender === null) cachedModuleRender = getRenderTileFromModule()`
ModuleAfterLookup(c) ==
  IF c = "null" THEN (IF modHasFn THEN "function" ELSE "null") ELSE c

\* entry of renderTileCompat: look the callable up if needed, call it if there
RenderTileCompat ==
  /\ pc = "rtc"
  /\ LET c == ModuleAfterLookup(cachedModuleRender)
         looked == IF cachedModuleRender = "null" THEN << LookupEvent(req) >>
                   ELSE <<>>
     IN /\ cachedModuleRender' = c
        /\ IF c = "function"
             THEN /\ log' = log \o looked \o << CallEvent(req) >>
                  /\ pc' = "pending"
             ELSE /\ log' = log \o looked
                  /\ pc' = "cli"
  /\ UNCHANGED << pureVars, netVars, glyphServed, runOk, script, argv,
                  modHasFn,
                  exitCode, styleLoaded, glyphArgs, glyphServer, styleGlyphs,
                  lines, noCoords, idx, req, cachedCliTemplate, vi, tmpPng,
                  files >>

\* faulty variant: the catch resets the cache to null, so it is looked up again
Demoted_Null == "null"

\* catch in renderTileCompat: "fall back to CLI for the remainder"
Demoted == "undefined"

\* the in-process invocation resolves with a buffer
InProcessReturns ==
  /\ pc = "pending"
  /\ ~glyphWaiting
  /\ Complete(<< Event("return", req, TileOfReq(req), 0, FreshBytes) >>, FreshBytes)
  /\ UNCHANGED << pureVars, netVars, glyphServed, runOk, script, argv,
                  modHasFn,
                  styleLoaded, glyphArgs, glyphServer, styleGlyphs, lines,
                  noCoords, req, cachedModuleRender, cachedCliTemplate, vi,
                  tmpPng >>

\* the in-process invocation throws or rejects
InProcessThrows ==
  /\ pc = "pending"
  /\ ~glyphWaiting
  /\ IF script = "api"
       THEN /\ Fail(<< Event("throw", req, TileOfReq(req), 0, EmptyBytes) >>)
            /\ UNCHANGED cachedModuleRender
       ELSE /\ cachedModuleRender' = Demoted
            /\ log' = log \o << Event("throw", req, TileOfReq(req), 0, EmptyBytes) >>
            /\ pc' = "cli"
            /\ UNCHANGED << exitCode, idx, files >>
  /\ UNCHANGED << pureVars, netVars, glyphServed, runOk, script, argv,
                  modHasFn,
                  styleLoaded, glyphArgs, glyphServer, styleGlyphs, lines,
                  noCoords, req, cachedCliTemplate, vi, tmpPng >>

----------------------------------------------------------------------------
(* The out-of-process strategy (memo) *)

Outputs == {"none", "empty", "data"}

\* outPng after a subprocess that wrote nothing, an empty file, or an image
PngAfter(out) ==
  CASE out = "none" -> tmpPng
    [] out = "empty" -> << EmptyBytes >>
    [] out = "data" -> << FreshBytes >>

\* faulty variant: the cached template is ignored
NeedsDetect_Always(t) == TRUE

\* `cachedCliTemplate === null`: detectCliTemplate has to run
NeedsDetect(t) == t = 0

\* the fallback of renderTileCompat: detect once, then use the cached template
CliFallback ==
  /\ pc = "cli"
  /\ IF NeedsDetect(cachedCliTemplate)
       THEN /\ pc' = "detect"
            /\ vi' = 1
            /\ tmpPng' = <<>>
            /\ log' = log \o << Event("detect", req, ProbeTile, 0, EmptyBytes) >>
       ELSE /\ pc' = "template"
            /\ UNCHANGED << vi, tmpPng, log >>
  /\ UNCHANGED << pureVars, netVars, glyphServed, runOk, script, argv,
                  modHasFn,
                  exitCode, styleLoaded, glyphArgs, glyphServer, styleGlyphs,
                  lines, noCoords, idx, req, cachedModuleRender,
                  cachedCliTemplate, files >>

\* faulty variant: the exit status alone decides
Accepts_ExitOnly(ok, png) == ok

\* `!run.error && run.status === 0 && fs.existsSync(outPng)`
Accepts(ok, png) == ok /\ png # <<>>

\* faulty variant: the iteration skips every other variant
NextVariant_SkipOne(v) == v + 2

\* `for (const args of variants)`: the variant tried after variant v
NextVariant(v) == v + 1

\* detectCliTemplate: spawnSync of variant vi on the probe tile
DetectStep ==
  /\ pc = "detect"
  /\ \E ok \in BOOLEAN, out \in Outputs :
       LET png == PngAfter(out)
           ev == Event("trial", req, ProbeTile, vi, EmptyBytes)
       IN /\ tmpPng' = png
          /\ runOk' = ok
          /\ IF Accepts(ok, png)
               THEN /\ cachedCliTemplate' = vi
                    /\ pc' = "template"
                    /\ log' = log \o << ev >>
                    /\ UNCHANGED << vi, exitCode, idx, files >>
               ELSE IF vi < NumVariants
                 THEN /\ vi' = NextVariant(vi)
                      /\ log' = log \o << ev >>
                      /\ UNCHANGED << pc, cachedCliTemplate, exitCode, idx, files >>
                 ELSE /\ Fail(<< ev >>)
                      /\ UNCHANGED << vi, cachedCliTemplate >>
  /\ UNCHANGED << pureVars, netVars, glyphServed, script, argv, modHasFn,
                  styleLoaded,
                  glyphArgs, glyphServer, styleGlyphs, lines, noCoords, req,
                  cachedModuleRender >>

\* the memoized closure: spawnSync with the tile's arguments, read outPng back
TemplateCall ==
  /\ pc = "template"
  /\ \E ok \in BOOLEAN, out \in Outputs :
       LET png == PngAfter(out)
           ev == Event("run", req, TileOfReq(req), cachedCliTemplate, EmptyBytes)
       IN /\ tmpPng' = png
          /\ runOk' = ok
          /\ IF ok /\ png # <<>> /\ png # << EmptyBytes >>
               THEN Complete(<< ev >>, png[1])
               ELSE Fail(<< ev >>)
  /\ UNCHANGED << pureVars, netVars, glyphServed, script, argv, modHasFn,
                  styleLoaded,
                  glyphArgs, glyphServer, styleGlyphs, lines, noCoords, req,
                  cachedModuleRender, cachedCliTemplate, vi >>

----------------------------------------------------------------------------
(* Glyph requests while main() awaits the backend *)

\* main() is suspended at `await Promise.resolve(renderFn(...))`, so the
\* event loop can run the callbacks of the server
EventLoopFree == pc = "pending"

\* the pending backend invocation asks the glyphs URL of the style for a
\* range and waits for the response
GlyphArrive ==
  /\ script = "api"
  /\ pc = "pending"
  /\ glyphServer = "listening"
  /\ styleGlyphs = "local"
  /\ urlPort = listenPort
  /\ ~glyphWaiting
  /\ glyphServed < MaxGlyphRequests
  /\ glyphWaiting' = TRUE
  /\ openConns' = 1
  /\ UNCHANGED << pureVars, listenPort, urlPort, glyphServed, runOk, script,
                  argv, modHasFn, pc, exitCode, styleLoaded, glyphArgs,
                  glyphServer, styleGlyphs, lines, noCoords, idx, req,
                  cachedModuleRender, cachedCliTemplate, vi, tmpPng, files,
                  log >>

\* the server handles the waiting request; an uncaught exception ends the
\* process and the request is never answered
GlyphRequest ==
  /\ script = "api"
  /\ glyphServer = "listening"
  /\ glyphWaiting
  /\ EventLoopFree
  /\ glyphServed' = glyphServed + 1
  /\ \E crashed \in CrashOutcomes :
       IF crashed
         THEN /\ Exit(1)
              /\ glyphWaiting' = glyphWaiting
         ELSE /\ glyphWaiting' = FALSE
              /\ UNCHANGED << pc, exitCode >>
  /\ UNCHANGED << pureVars, listenPort, urlPort, openConns, runOk, script,
                  argv, modHasFn, styleLoaded, glyphArgs, glyphServer,
                  styleGlyphs, lines, noCoords, idx, req, cachedModuleRender,
                  cachedCliTemplate, vi, tmpPng, files, log >>

\* faulty variant: an idle connection is kept open for ever
ConnectionEnds_Never(c) == FALSE

\* an idle keep-alive connection ends: the client hangs up or the server's
\* keep-alive timeout (default options of http.createServer) expires
ConnectionEnds(c) == c > 0 /\ ~glyphWaiting

\* a connection of the glyph server is closed while the process runs; the
\* end of a connection that outlived close() is recorded
ConnClose ==
  /\ pc # "exited"
  /\ ConnectionEnds(openConns)
  /\ openConns' = 0
  /\ log' = IF glyphServer = "closed"
              THEN log \o << Event("hangup", 0, <<NaN, NaN, NaN>>, 0, EmptyBytes) >>
              ELSE log
  /\ UNCHANGED << pureVars, listenPort, urlPort, glyphWaiting, glyphServed,
                  runOk, script, argv, modHasFn, pc, exitCode, styleLoaded,
                  glyphArgs, glyphServer, styleGlyphs, lines, noCoords, idx,
                  req, cachedModuleRender, cachedCliTemplate, vi, tmpPng,
                  files >>

----------------------------------------------------------------------------

Next ==
  \/ CheckArgs
  \/ LoadStyle
  \/ SetupGlyphs
  \/ ReadTileList
  \/ Probe
  \/ LoopSkip
  \/ LoopRender
  \/ LoopDone
  \/ ProcessExit
  \/ RenderTileCompat
  \/ InProcessReturns
  \/ InProcessThrows
  \/ CliFallback
  \/ DetectStep
  \/ TemplateCall
  \/ GlyphArrive
  \/ GlyphRequest
  \/ ConnClose

Spec == Init /\ [][Next]_vars

(* Runs of render_raster_tiles.js that do not stop while they can go on *)

InitApi == Init /\ script = "api"

\* the steps main() takes by itself, and the end of the process
ApiStep ==
  \/ CheckArgs
  \/ LoadStyle
  \/ SetupGlyphs
  \/ ReadTileList
  \/ Probe
  \/ LoopSkip
  \/ LoopRender
  \/ LoopDone
  \/ ProcessExit

\* every pending backend call completes, with a result or with an error
BackendCompletes == InProcessReturns \/ InProcessThrows

\* what happens without a new request from outside: the script goes on,
\* a pending backend call completes, the event loop runs the handler of a
\* request that has arrived, an idle connection ends
Progress ==
  \/ ApiStep
  \/ BackendCompletes
  \/ GlyphRequest
  \/ ConnClose

NextApi == Progress \/ GlyphArrive

\* a run that does not stop while one of these can happen; nothing makes a
\* glyph request arrive
SpecLive == InitApi /\ [][NextApi]_vars /\ WF_vars(Progress)

----------------------------------------------------------------------------
(* The request handler taken alone: a cache, then one request *)

\* main() of render_raster_tiles.js awaits its backend, the server listens
MainServing ==
  /\ script = "api"
  /\ argv = Required
  /\ modHasFn = TRUE
  /\ pc = "pending"
  /\ exitCode = <<>>
  /\ styleLoaded = TRUE
  /\ glyphArgs = [dir |-> TRUE, pbf |-> TRUE, url |-> FALSE]
  /\ glyphServer = "listening"
  /\ styleGlyphs = "local"
  /\ lines = << <<"8,40,90">> >>
  /\ noCoords = FALSE
  /\ idx = 0
  /\ req = 0
  /\ cachedModuleRender = "null"
  /\ cachedCliTemplate = 0
  /\ vi = 0
  /\ tmpPng = <<>>
  /\ runOk = FALSE
  /\ files = <<>>
  /\ log = << LookupEvent(0), CallEvent(0) >>
  /\ glyphServed = 0
  /\ listenPort \in Ports
  /\ urlPort = listenPort
  /\ glyphWaiting = TRUE
  /\ openConns = 1

InitGlyph ==
  /\ MainServing
  /\ glyphFs \in Caches
  /\ glyphReq = <<>>
  /\ glyphResp = NoResponse
  /\ StyleAtRest
  /\ BBoxAtRest
  /\ ProgressAtRest
  /\ FetchAtRest

\* the handler is stateless: one request per cache is followed
Serve ==
  /\ glyphResp = NoResponse
  /\ \E u \in Requests :
       /\ glyphReq' = u
       /\ glyphResp' = HandleGlyph(glyphFs, u)
  /\ UNCHANGED << mainVars, glyphFs, styleVars, bboxVars, progressVars,
                  fetchVars >>

NextGlyph == Serve

SpecGlyph == InitGlyph /\ [][NextGlyph]_vars

----------------------------------------------------------------------------
(* Style resolution taken alone: a style and a data source, then resolve *)

\* main() has checked its arguments and is about to load the style
MainAtStyle ==
  /\ script \in Scripts
  /\ argv = Required
  /\ modHasFn = TRUE
  /\ pc = "style"
  /\ exitCode = <<>>
  /\ styleLoaded = FALSE
  /\ glyphArgs = [dir |-> FALSE, pbf |-> FALSE, url |-> FALSE]
  /\ glyphServer = "none"
  /\ styleGlyphs = "original"
  /\ lines = <<>>
  /\ noCoords = FALSE
  /\ idx = 0
  /\ req = 0
  /\ cachedModuleRender = "null"
  /\ cachedCliTemplate = 0
  /\ vi = 0
  /\ tmpPng = <<>>
  /\ runOk = FALSE
  /\ files = <<>>
  /\ log = <<>>
  /\ glyphServed = 0
  /\ NoNetwork

InitStyle ==
  /\ MainAtStyle
  /\ HandlerAtRest
  /\ BBoxAtRest
  /\ ProgressAtRest
  /\ FetchAtRest
  /\ styleDoc \in Docs
  /\ styleRef \in Names
  /\ styleOut = <<>>

\* the style is resolved: styleOut holds the one resolved text
Resolve ==
  /\ styleOut = <<>>
  /\ styleOut' = << ResolveStyle(styleDoc, styleRef) >>
  /\ UNCHANGED << mainVars, handlerVars, styleDoc, styleRef, bboxVars,
                  progressVars, fetchVars >>

NextStyle == Resolve

SpecStyle == InitStyle /\ [][NextStyle]_vars

----------------------------------------------------------------------------
(* tileBBox taken alone: a valid tile, then its bounding box *)

InitBBox ==
  /\ MainAtStyle
  /\ script = "api"
  /\ HandlerAtRest
  /\ StyleAtRest
  /\ ProgressAtRest
  /\ FetchAtRest
  /\ bbTile \in ValidTiles
  /\ bbOut = <<>>

\* const bounds = tileBBox(z, x, y)
Bound ==
  /\ bbOut = <<>>
  /\ bbOut' = << tileBBox(bbTile[1], bbTile[2], bbTile[3]) >>
  /\ UNCHANGED << mainVars, handlerVars, styleVars, bbTile, progressVars,
                  fetchVars >>

NextBBox == Bound

SpecBBox == InitBBox /\ [][NextBBox]_vars

----------------------------------------------------------------------------
(* The render loop over a long list, followed for its progress lines only: *)
(* every render succeeds, a line is blank or holds a coordinate.           *)

\* longest and shortest list followed, and the most blank lines in one list
MaxLines == 502
MinLines == 499
MaxBlanks == 2

\* the 500 of `(idx+1) % 500 === 0`
BatchSize == 500

\* what `Rendered ${idx+1} / ${lines.length} tiles...` shows after the tile
\* of the line with 0-based index i, and how many tiles were written by then
ProgressLine(i, written) == [shown |-> i + 1, of |-> prLen, written |-> written]

\* `if ((idx+1) % 500 === 0)`
ProgressDue(i) == (i + 1) % BatchSize = 0

\* after .trim() neither the first nor the last line of the list is blank
MayBeBlank(i) ==
  /\ i > 0
  /\ i < prLen - 1
  /\ prIdx - prWritten < MaxBlanks

InitProgress ==
  /\ MainAtStyle
  /\ HandlerAtRest
  /\ StyleAtRest
  /\ BBoxAtRest
  /\ FetchAtRest
  /\ prLen \in MinLines..MaxLines
  /\ prIdx = 0
  /\ prWritten = 0
  /\ prOut = <<>>

\* one iteration of `for (const [idx, line] of lines.entries())`: a blank
\* line is passed over, a coordinate is rendered, written and counted
Iterate ==
  /\ prIdx < prLen
  /\ \E blank \in BOOLEAN :
       /\ blank => MayBeBlank(prIdx)
       /\ IF blank
            THEN UNCHANGED << prWritten, prOut >>
            ELSE /\ prWritten' = prWritten + 1
                 /\ prOut' = IF ProgressDue(prIdx)
                               THEN Append(prOut, ProgressLine(prIdx, prWritten + 1))
                               ELSE prOut
  /\ prIdx' = prIdx + 1
  /\ UNCHANGED << mainVars, handlerVars, styleVars, bboxVars, prLen,
                  fetchVars >>

NextProgress == Iterate

SpecProgress == InitProgress /\ [][NextProgress]_vars

----------------------------------------------------------------------------
(* fetch_glyphs (src/scripts/package_and_split.sh, lines 17-147): main()   *)
(* on one style and one list of ranges.  A font name and a stack are       *)
(* texts, a target is the pair <<stack, range>> of stackDir and file name. *)

\* most ranges of --ranges
MaxRanges == 2

RangeNames == {"0-255", "256-511"}

\* rangesStr.split(',').map(s => s.trim()).filter(Boolean), repeats included
RangeLists == UNION { [1..k -> RangeNames] : k \in 0..MaxRanges }

\* the text-font arrays of the layers of the styles considered
TextFonts ==
  { <<>>,
    << << <<"NotoSans">> >> >>,
    << << <<"NotoSans">>, <<"NotoSans">> >> >>,
    << << <<"NotoSans">>, <<"Arial">> >> >> }

\* --style and the file behind it: the text-font arrays of its layers
StyleArg(given, readable, layers) ==
  [given |-> given, readable |-> readable, layers |-> layers]

\* --style missing, the file unreadable / not JSON, or a style with layers
FetchStyles ==
  { StyleArg(FALSE, FALSE, <<>>), StyleArg(TRUE, FALSE, <<>>) }
    \cup { StyleArg(TRUE, TRUE, l) : l \in TextFonts }

\* a Set keeps the first occurrence of a value, in insertion order
RECURSIVE Dedupe(_, _)
Dedupe(s, acc) ==
  IF s = <<>> THEN acc
  ELSE Dedupe(Tail(s),
              IF \E i \in 1..Len(acc) : acc[i] = Head(s)
                THEN acc ELSE Append(acc, Head(s)))

\* addFromArray on an array of strings: the joined stack, then each font
AddFromArray(arr) ==
  IF arr = <<>> THEN <<>> ELSE << JoinWith(arr, COMMA) >> \o arr

\* extractFontStacks(style): Array.from(stacks)
RECURSIVE Added(_)
Added(layers) ==
  IF layers = <<>> THEN <<>>
  ELSE AddFromArray(Head(layers)) \o Added(Tail(layers))

extractFontStacks(layers) == Dedupe(Added(layers), <<>>)

\* the caches a run may find: any targets of its stacks and ranges
FetchCaches(style, ranges) ==
  IF style.readable
    THEN SUBSET { << extractFontStacks(style.layers)[i], ranges[j] >> :
                    i \in 1..Len(extractFontStacks(style.layers)),
                    j \in 1..Len(ranges) }
    ELSE { {} }

\* outcomes of `await fetchBuffer(u)`: a buffer, a response that is not ok
\* (err.status set), or a rejected fetch (only err.message)
FetchOutcomes == {"ok", "http", "network"}

\* `miss:${e.status||e.message}`
MissStatus(outcome) ==
  IF outcome = "http" THEN "miss:404" ELSE "miss:fetch failed"

Statuses == {"cached", "downloaded", "miss:404", "miss:fetch failed"}

\* results.push({ stack, range, status })
Result(stack, range, status) ==
  [stack |-> stack, range |-> range, status |-> status]

\* an entry of the history: op is "mkdir", "mkdirfail", "fetch" or "write";
\* at is the number of results recorded before it
FetchOp(op, target) == [op |-> op, target |-> target, at |-> Len(ftResults)]

\* process.exit(code), or the end of main() with nothing left to run
FetchExit(code) ==
  /\ ftPc' = "exited"
  /\ ftExit' = << code >>

\* the loops move on from range ri of stack si
Advance(si, ri) ==
  IF ri < Len(ftRanges)
    THEN /\ ftSi' = si
         /\ ftRi' = ri + 1
         /\ ftPc' = "loop"
    ELSE /\ ftSi' = si + 1
         /\ ftRi' = 0
         /\ ftPc' = IF si < Len(ftStacks) THEN "loop" ELSE "manifest"

InitFetch ==
  /\ MainAtStyle
  /\ script = "api"
  /\ HandlerAtRest
  /\ StyleAtRest
  /\ BBoxAtRest
  /\ ProgressAtRest
  /\ ftStyle \in FetchStyles
  /\ ftRanges \in RangeLists
  /\ ftFs \in FetchCaches(ftStyle, ftRanges)
  /\ ftPc = "start"
  /\ ftExit = <<>>
  /\ ftStacks = <<>>
  /\ ftSi = 0
  /\ ftRi = 0
  /\ ftResults = <<>>
  /\ ftOps = <<>>
  /\ ftManifest = <<>>

\* main() up to the loops: usage check, readJSON, extractFontStacks, the
\* early return when the style names no font, mkdir of outDir
FetchBegin ==
  /\ ftPc = "start"
  /\ IF ~ftStyle.given
       THEN /\ FetchExit(2)
            /\ UNCHANGED << ftStacks, ftSi >>
       ELSE IF ~ftStyle.readable
         THEN /\ FetchExit(1)
              /\ UNCHANGED << ftStacks, ftSi >>
         ELSE /\ ftStacks' = extractFontStacks(ftStyle.layers)
              /\ IF extractFontStacks(ftStyle.layers) = <<>>
                   THEN /\ FetchExit(0)
                        /\ UNCHANGED ftSi
                   ELSE /\ ftPc' = "loop"
                        /\ ftSi' = 1
                        /\ ftExit' = ftExit
  /\ UNCHANGED << mainVars, handlerVars, styleVars, bboxVars, progressVars,
                  fetchIn, ftFs, ftRi, ftResults, ftOps, ftManifest >>

\* head of the outer loop body: fs.mkdirSync(stackDir), outside any try
EnterStack ==
  /\ ftPc = "loop"
  /\ ftRi = 0
  /\ \E ok \in BOOLEAN :
       IF ok
         THEN /\ ftOps' = Append(ftOps, FetchOp("mkdir", << ftStacks[ftSi] >>))
              /\ Advance(ftSi, 0)
              /\ ftExit' = ftExit
         ELSE /\ ftOps' = Append(ftOps, FetchOp("mkdirfail", << ftStacks[ftSi] >>))
              /\ FetchExit(1)
              /\ UNCHANGED << ftSi, ftRi >>
  /\ UNCHANGED << mainVars, handlerVars, styleVars, bboxVars, progressVars,
                  fetchIn, ftFs, ftStacks, ftResults, ftManifest >>

\* faulty variant: only a response that is not ok is caught
Caught_HttpOnly(outcome) == outcome = "http"

\* the try/catch around fetchBuffer: every failed fetch is caught
Caught(outcome) == outcome # "ok"

\* one iteration of the inner loop, for the target of stack si and range ri
FetchPair ==
  /\ ftPc = "loop"
  /\ ftRi >= 1
  /\ LET stack == ftStacks[ftSi]
         range == ftRanges[ftRi]
         target == << stack, range >>
     IN IF target \in ftFs
          THEN /\ ftResults' = Append(ftResults, Result(stack, range, "cached"))
               /\ Advance(ftSi, ftRi)
               /\ UNCHANGED << ftFs, ftOps, ftExit >>
          ELSE \E outcome \in FetchOutcomes :
                 IF outcome = "ok"
                   THEN /\ ftFs' = ftFs \cup { target }
                        /\ ftOps' = ftOps \o << FetchOp("fetch", target),
                                                FetchOp("write", target) >>
                        /\ ftResults' =
                             Append(ftResults, Result(stack, range, "downloaded"))
                        /\ Advance(ftSi, ftRi)
                        /\ ftExit' = ftExit
                   ELSE /\ ftOps' = Append(ftOps, FetchOp("fetch", target))
                        /\ ftFs' = ftFs
                        /\ IF Caught(outcome)
                             THEN /\ ftResults' =
                                       Append(ftResults,
                                              Result(stack, range, MissStatus(outcome)))
                                  /\ Advance(ftSi, ftRi)
                                  /\ ftExit' = ftExit
                             ELSE /\ FetchExit(1)
                                  /\ UNCHANGED << ftSi, ftRi, ftResults >>
  /\ UNCHANGED << mainVars, handlerVars, styleVars, bboxVars, progressVars,
                  fetchIn, ftStacks, ftManifest >>

\* fs.writeFileSync(manifest.json), the summary, the end of main()
WriteManifest ==
  /\ ftPc = "manifest"
  /\ ftManifest' = Append(ftManifest, [ranges |-> ftRanges, stacks |-> ftStacks])
  /\ FetchExit(0)
  /\ UNCHANGED << mainVars, handlerVars, styleVars, bboxVars, progressVars,
                  fetchIn, ftFs, ftStacks, ftSi, ftRi, ftResults, ftOps >>

NextFetch ==
  \/ FetchBegin
  \/ EnterStack
  \/ FetchPair
  \/ WriteManifest

SpecFetch == InitFetch /\ [][NextFetch]_vars

----------------------------------------------------------------------------
(* Vocabulary of the properties *)

Pos == 1..Len(log)

\* positions of the events whose op is in S
OpsAt(S) == { k \in Pos : log[k].op \in S }

\* positions of the events of the up-front probe request whose op is in S
ProbeEvents(S) == { k \in OpsAt(S) : log[k].req = 0 }

\* a rendering backend is invoked: in-process call or subprocess
Invocations == {"call", "trial", "run"}

\* the lines of the list that hold a coordinate
NonBlank == { i \in 1..Len(lines) : ~IsBlank(lines[i]) }

ProbeFailed == ProbeEvents({"fail"}) # {}

----------------------------------------------------------------------------
(* C1: when the up-front probe request fails (no callable, the probe        *)
(* invocation throws, no CLI variant works), the process has exited with   *)
(* code 1 and no file was ever written under the output directory.         *)
C1_ProbeFailureExitsWithoutOutput ==
  ProbeFailed =>
    /\ pc = "exited"
    /\ exitCode = << 1 >>
    /\ DOMAIN files = {}
    /\ OpsAt({"write"}) = {}

\* no callable, all six variants tried and rejected
C1_Witness ==
  /\ script = "memo"
  /\ ~modHasFn
  /\ ProbeFailed
  /\ Cardinality(OpsAt({"trial"})) = NumVariants
  /\ exitCode = << 1 >>

(* C2: once cachedCliTemplate holds a strategy, no step replaces it, no    *)
(* step enters detectCliTemplate or spawns a detection subprocess again,   *)
(* and every later subprocess render uses the layout of that variant.      *)
C2_SingleCliStrategy ==
  [][ cachedCliTemplate # 0 =>
        /\ cachedCliTemplate' = cachedCliTemplate
        /\ \A k \in (Len(log) + 1)..Len(log') :
             /\ log'[k].op \notin {"detect", "trial"}
             /\ log'[k].op = "run" => log'[k].v = cachedCliTemplate ]_vars

\* the memoized template has served two different requests
C2_Witness ==
  /\ cachedCliTemplate # 0
  /\ \E k \in OpsAt({"run"}), m \in OpsAt({"run"}) :
       /\ log[k].req < log[m].req
       /\ log[k].v = cachedCliTemplate
       /\ log[m].v = cachedCliTemplate

(* C3 as stated: when the render loop starts, exactly one backend          *)
(* invocation (in-process call or subprocess) has happened.                *)
C3_OneProbeInvocation ==
  pc = "loop" => Cardinality(ProbeEvents(Invocations)) = 1

(* C3 amended: main issues one probe request.  If the in-process callable  *)
(* is found and its probe invocation succeeds, that call is the only       *)
(* backend invocation before the loop.  Otherwise detectCliTemplate runs   *)
(* once and spawns one subprocess on the fixed probe tile for each variant *)
(* in list order up to and including the accepted one (k of them), then    *)
(* the template spawns one more for the first tile: k + 1 subprocesses,    *)
(* after at most one (failed) in-process call.                             *)
C3_ProbeInvocations ==
  idx >= 1 =>
    LET calls == ProbeEvents({"call"})
        trials == ProbeEvents({"trial"})
        runs == ProbeEvents({"run"})
    IN /\ Cardinality(calls) <= 1
       /\ IF ProbeEvents({"return"}) # {}
            THEN /\ Cardinality(ProbeEvents(Invocations)) = 1
                 /\ ProbeEvents({"detect"}) = {}
            ELSE /\ script = "memo"
                 /\ Cardinality(ProbeEvents({"detect"})) = 1
                 /\ cachedCliTemplate \in 1..NumVariants
                 /\ Cardinality(trials) = cachedCliTemplate
                 /\ \A k \in trials :
                      /\ log[k].v = Cardinality({ m \in trials : m <= k })
                      /\ log[k].tile = ProbeTile
                 /\ Cardinality(runs) = 1
                 /\ \A k \in runs :
                      /\ log[k].tile = TileOfReq(0)
                      /\ \A m \in trials : m < k
                 /\ Cardinality(ProbeEvents(Invocations)) =
                      Cardinality(calls) + cachedCliTemplate + 1

\* the callable threw on the probe and the third variant was accepted
C3_Witness ==
  /\ pc = "loop"
  /\ ProbeEvents({"throw"}) # {}
  /\ cachedCliTemplate = 3
  /\ Cardinality(ProbeEvents({"trial"})) = 3

(* C4: in the memoized script, if the module exports a callable and no     *)
(* invocation of it throws or rejects, detectCliTemplate is never entered  *)
(* and no subprocess is spawned: every tile is rendered in-process.        *)
C4_InProcessPreferred ==
  (script = "memo" /\ modHasFn /\ OpsAt({"throw"}) = {}) =>
    /\ OpsAt({"detect", "trial", "run"}) = {}
    /\ pc \notin {"cli", "detect", "template"}
    /\ cachedCliTemplate = 0
    /\ \A k \in OpsAt({"write"}) :
         \E m \in OpsAt({"return"}) :
           /\ m < k
           /\ log[m].req = log[k].req
           /\ log[m].bytes = log[k].bytes

\* two tiles rendered in-process and written
C4_Witness ==
  /\ script = "memo"
  /\ modHasFn
  /\ OpsAt({"throw"}) = {}
  /\ Cardinality(OpsAt({"write"})) >= 2
  /\ exitCode = << 0 >>

(* C5: in the memoized script, after an invocation of the in-process       *)
(* callable has thrown, the callable is never looked up or invoked again,  *)
(* and every PNG written afterwards comes from a subprocess run.           *)
C5_DemotionPermanent ==
  script = "memo" =>
    \A k \in OpsAt({"throw"}) :
      /\ cachedModuleRender = "undefined"
      /\ \A m \in Pos : m > k => log[m].op \notin {"lookup", "call", "return"}
      /\ \A m \in OpsAt({"write"}) :
           m > k => \E j \in OpsAt({"run"}) :
                      /\ k < j
                      /\ j < m
                      /\ log[j].req = log[m].req

\* after the demotion a later request was served by a subprocess
C5_Witness ==
  /\ script = "memo"
  /\ \E k \in OpsAt({"throw"}), m \in OpsAt({"run"}) :
       /\ k < m
       /\ log[k].req < log[m].req

(* C6: the render loop is sequential and keeps the list order: nothing is  *)
(* done for the tile of line j (lookup, in-process call, detection,        *)
(* subprocess) before the PNG of every coordinate line i < j has been      *)
(* written, and the PNGs are written to outdir/z/x/y.png in list order.    *)
C6_SequentialInOrder ==
  /\ \A k \in Pos :
       (log[k].req >= 1 /\ log[k].op \in Invocations \cup {"lookup", "detect"}) =>
         \A i \in NonBlank :
           i < log[k].req =>
             \E m \in OpsAt({"write"}) : m < k /\ log[m].req = i
  /\ \A k \in OpsAt({"write"}), m \in OpsAt({"write"}) :
       k < m => log[k].req < log[m].req
  /\ \A k \in OpsAt({"write"}) :
       /\ log[k].req \in NonBlank
       /\ log[k].tile = ParseLine(lines[log[k].req])
       /\ PathOf(log[k].tile) \in DOMAIN files

\* a second tile was rendered and written after the first
C6_Witness ==
  \E k \in OpsAt({"write"}), m \in OpsAt({"write"}) :
    /\ k < m
    /\ log[k].tile # log[m].tile
    /\ \E j \in OpsAt(Invocations) : k < j /\ j < m /\ log[j].req = log[m].req

(* C7 as stated: once a backend invocation for a tile of the list has      *)
(* thrown, nothing is rendered or written afterwards (neither that tile by *)
(* other means nor a later tile) and the process does not exit with 0.     *)
C7_InvocationFailureFatal ==
  \A k \in OpsAt({"throw"}) :
    log[k].req >= 1 =>
      /\ \A m \in Pos :
           m > k => log[m].op \notin Invocations \cup {"detect", "write"}
      /\ exitCode # << 0 >>

(* C7 amended: a render request that fails is fatal and not retried: it is *)
(* the last thing the run does, the process exits with 1, the tile of the  *)
(* request is not written, each means was tried at most once for it, and   *)
(* the files of the earlier tiles stay.  In render_raster_tiles.js a       *)
(* throwing backend invocation fails its request at once; in the memoized  *)
(* script a throwing in-process invocation only demotes the strategy, and  *)
(* the request fails when the out-of-process path fails.                   *)
C7_RequestFailureFatal ==
  /\ \A k \in OpsAt({"fail"}) :
       /\ k = Len(log)
       /\ pc = "exited"
       /\ exitCode = << 1 >>
       /\ \A m \in OpsAt({"write"}) : log[m].req < log[k].req
       /\ \A o \in {"call", "run"} :
            Cardinality({ m \in OpsAt({o}) : log[m].req = log[k].req }) <= 1
       /\ DOMAIN files = { PathOf(log[m].tile) : m \in OpsAt({"write"}) }
  /\ script = "api" =>
       \A k \in OpsAt({"throw"}) : k < Len(log) /\ log[k + 1].op = "fail"

\* the request of the second coordinate failed after the first was written
C7_Witness ==
  /\ \E k \in OpsAt({"fail"}) : log[k].req >= 2
  /\ DOMAIN files # {}

(* C8: when a required parameter is missing the process exits with code 2  *)
(* and nothing else happens: no style is loaded, no glyph server started,  *)
(* no backend looked up or invoked, no file written.                       *)
C8_MissingParameterExits2 ==
  argv # Required =>
    /\ pc \in {"start", "exited"}
    /\ pc = "exited" => exitCode = << 2 >>
    /\ ~styleLoaded
    /\ glyphServer = "none"
    /\ styleGlyphs = "original"
    /\ lines = <<>>
    /\ log = <<>>
    /\ DOMAIN files = {}

\* --outdir alone is missing and the process has exited
C8_Witness ==
  /\ argv = Required \ {"outdir"}
  /\ pc = "exited"
  /\ exitCode = << 2 >>

(* C9: a tile list without any coordinate line is rejected at once: the    *)
(* process has exited with a non-zero code and the backend was neither     *)
(* looked up nor invoked.                                                  *)
C9_EmptyListRejected ==
  noCoords =>
    /\ pc = "exited"
    /\ exitCode \in { << 1 >>, << 2 >> }
    /\ log = <<>>

C11_ReportedCountIsWritten ==
  (pc = "exited" /\ exitCode = << 0 >>) =>
    /\ Cardinality(OpsAt({"done"})) = 1
    /\ \A k \in OpsAt({"done"}) : log[k].v = Cardinality(OpsAt({"write"}))

(* C14: after the glyph block of render_raster_tiles.js the server is      *)
(* started exactly when a glyph directory was given and holds a .pbf in a  *)
(* subdirectory; whenever it is not started the style's glyphs are the     *)
(* override URL if one was given and the original ones otherwise.          *)
C14_GlyphConfiguration ==
  (script = "api" /\ styleLoaded /\ pc # "glyphs") =>
    /\ glyphServer # "none" <=> (glyphArgs.dir /\ glyphArgs.pbf)
    /\ glyphServer = "none" =>
         styleGlyphs = IF glyphArgs.url THEN "override" ELSE "original"

(* C17: whenever the process has ended after the glyph server was started, *)
(* the server's close operation has been invoked.                          *)
C17_ServerClosedBeforeExit ==
  (pc = "exited" /\ ServerStarted(glyphArgs)) => glyphServer = "closed"

----------------------------------------------------------------------------
(* Vocabulary of the properties of the request handler *)

\* the request has been handled
Handled == glyphResp # NoResponse

\* p lies in the directory tree of the cache root
UnderRoot(p) == Len(p) > Len(AbsGlyphs) /\ IsPrefix(AbsGlyphs, p)

\* font stacks made of plain font names
PlainFonts == { <<"NotoSans">>, <<"Arial">> }
PlainLists == [1..1 -> PlainFonts] \cup [1..2 -> PlainFonts]

\* the candidates of a stack: the exact comma-joined stack, then each font
CandidatesOf(fonts) == << JoinWith(fonts, COMMA) >> \o fonts

\* the file <root>/<candidate>/<name>
Cached(cand, name) == AbsGlyphs \o << cand, name >>

(* C12: the handler never opens a path outside the directory tree of the   *)
(* glyph cache root, whatever the request.                                 *)
C12_NothingOpenedOutsideRoot ==
  (Handled /\ glyphResp.opened # <<>>) => UnderRoot(glyphResp.opened)

(* C13 as stated: for a request /<stack>/<range> the body is the cached    *)
(* file <root>/<candidate>/<range>.pbf of the first candidate (exact       *)
(* stack, then each font in order) that has it; 404 if none has it.        *)
C13_RangeFileOfFirstCandidate ==
  \A fonts \in PlainLists :
    glyphReq = << JoinWith(fonts, COMMA), <<"0-255">> >> =>
      LET cands == CandidatesOf(fonts)
          has == { i \in 1..Len(cands) :
                     IsFile(glyphFs, Cached(cands[i], <<"0-255", ".pbf">>)) }
      IN IF has = {}
           THEN glyphResp.status = 404
           ELSE \E i \in has :
                  /\ \A j \in has : i <= j
                  /\ glyphResp =
                       Response(200, Cached(cands[i], <<"0-255", ".pbf">>), FALSE)

(* C13 amended: for a request /<stack>/<name> with a stack of plain font   *)
(* names, the candidates are the exact comma-joined stack and then each    *)
(* font in list order; the second segment is the file name as it stands;   *)
(* the handler opens <root>/<candidate>/<name> of the first candidate for  *)
(* which that path exists and sends its contents if it is a regular file;  *)
(* if no candidate has it the answer is 404.                               *)
C13_FirstCandidateServed ==
  \A fonts \in PlainLists, name \in Ranges :
    glyphReq = << JoinWith(fonts, COMMA), name >> =>
      LET cands == CandidatesOf(fonts)
          has == { i \in 1..Len(cands) : Exists(glyphFs, Cached(cands[i], name)) }
      IN IF has = {}
           THEN glyphResp = Response(404, <<>>, FALSE)
           ELSE \E i \in has :
                  /\ \A j \in has : i <= j
                  /\ glyphResp.opened = Cached(cands[i], name)
                  /\ IsFile(glyphFs, glyphResp.opened) =>
                       glyphResp = Response(200, glyphResp.opened, FALSE)

\* only NotoSans/0-255.pbf is cached; /NotoSans,Arial/0-255.pbf returned it
C13_Witness ==
  /\ { e \in glyphFs : UnderRoot(e.path) } =
       { File(AbsGlyphs \o << <<"NotoSans">> >>, RangeFile) }
  /\ glyphReq = << <<"NotoSans", COMMA, "Arial">>, RangeFile >>
  /\ glyphResp = Response(200, Cached(<<"NotoSans">>, RangeFile), FALSE)

(* C15: every request is answered exactly once, with 404, 500 or the       *)
(* contents of a file: 404 when the path has not exactly two segments,     *)
(* and never a 200 for something that is not a readable file (a failure    *)
(* while serving gives 500).                                               *)
C15_OneResponsePerRequest ==
  Handled =>
    /\ ~glyphResp.crashed
    /\ glyphResp.status \in {200, 404, 500}
    /\ Len(UrlParts(glyphReq)) # 2 => glyphResp.status = 404
    /\ glyphResp.status = 200 => IsFile(glyphFs, glyphResp.opened)

(* C16: no glyph request ends the run: the step that handles one leaves    *)
(* the position of main() alone and the process running.                   *)
C16_GlyphRequestNeverAborts ==
  [][ glyphServed' # glyphServed => (pc' = pc /\ exitCode' = <<>>) ]_vars

----------------------------------------------------------------------------
(* Vocabulary of the properties of the style resolution *)

IsResolved == styleOut # <<>>

\* a reference that is not empty and has no piece of the placeholder and no
\* replacement pattern in it
PlainReference(r) ==
  r # <<>> /\ \A i \in 1..Len(r) : r[i] \notin {"MBTILES_", "PATH", MatchPattern}

(* C18 as stated: the resolved style never contains the placeholder,       *)
(* whatever the data-source file name, and resolving it again with the     *)
(* same reference returns it unchanged.                                    *)
C18_ResolutionIdempotent ==
  IsResolved =>
    /\ ~Contains(styleOut[1])
    /\ ResolveStyle(styleOut[1], styleRef) = styleOut[1]

(* C18 amended: with a reference that is not empty and holds no piece of   *)
(* the placeholder and no replacement pattern, the resolved style does not *)
(* contain the placeholder; and a resolved style that does not contain the *)
(* placeholder is returned unchanged when resolved again.                  *)
C18_PlainReferenceIdempotent ==
  IsResolved =>
    /\ PlainReference(Reference(styleRef)) => ~Contains(styleOut[1])
    /\ ~Contains(styleOut[1]) =>
         ResolveStyle(styleOut[1], styleRef) = styleOut[1]

\* a style with two placeholders was resolved with a plain reference
C18_Witness ==
  /\ IsResolved
  /\ styleDoc = Placeholder \o Placeholder
  /\ PlainReference(Reference(styleRef))
  /\ styleOut[1] = Reference(styleRef) \o Reference(styleRef)

----------------------------------------------------------------------------
(* Vocabulary of the properties of detectCliTemplate *)

Trials == OpsAt({"trial"})

\* a candidate has just been accepted by detectCliTemplate
JustAccepted == pc = "template" /\ log # <<>> /\ log[Len(log)].op = "trial"

(* C19: detectCliTemplate runs the candidates in list order and selects    *)
(* the first that meets its success test.  While it is at candidate vi,    *)
(* the candidates 1..vi-1 have been executed in order and none is          *)
(* selected; its next step executes candidate vi; if that run meets the    *)
(* test (status 0, no error, outPng exists) vi is selected and detection   *)
(* is over, otherwise nothing is selected and the next candidate follows;  *)
(* null is returned exactly when the last candidate has failed too.  Once  *)
(* a candidate is selected no candidate after it is ever executed.         *)
C19_FirstSuccessfulVariant ==
  [][ /\ pc = "detect" =>
           LET met == runOk' /\ tmpPng' # <<>> IN
           /\ vi \in 1..NumVariants
           /\ cachedCliTemplate = 0
           /\ Cardinality(Trials) = vi - 1
           /\ \A k \in Trials : log[k].v = Cardinality({ m \in Trials : m <= k })
           /\ Len(log') > Len(log)
           /\ log'[Len(log) + 1].op = "trial"
           /\ log'[Len(log) + 1].v = vi
           /\ IF met
                THEN /\ cachedCliTemplate' = vi
                     /\ pc' = "template"
                     /\ Len(log') = Len(log) + 1
                ELSE /\ cachedCliTemplate' = 0
                     /\ IF vi < NumVariants
                          THEN /\ pc' = "detect"
                               /\ vi' = vi + 1
                               /\ Len(log') = Len(log) + 1
                          ELSE /\ pc' = "exited"
                               /\ log'[Len(log')].op = "fail"
      /\ cachedCliTemplate # 0 =>
           \A k \in (Len(log) + 1)..Len(log') : log'[k].op # "trial" ]_vars

\* the first candidate failed and the second was selected
C19_Witness ==
  /\ JustAccepted
  /\ cachedCliTemplate = 2
  /\ Cardinality(Trials) = 2
  /\ runOk
  /\ tmpPng # <<>>

(* C20: a candidate is accepted by detectCliTemplate only if its own run   *)
(* ended successfully and left a non-empty output file.                    *)
C20_AcceptedOnlyWithOutput ==
  JustAccepted =>
    /\ runOk
    /\ tmpPng # <<>>
    /\ tmpPng # << EmptyBytes >>
    /\ tmpPng = << Len(log) >>

----------------------------------------------------------------------------
\* positions of the backend invocations made for render request r on a tile
\* of the list: an in-process call or a subprocess run of the template
Renders(r) == { k \in OpsAt({"call", "run"}) : log[k].req = r }

(* C21 as stated: over a successful run the backend is invoked exactly     *)
(* once for each coordinate line of the tile list: the probe takes the     *)
(* first line and the loop the remaining ones.                             *)
C21_OncePerCoordinateLine ==
  (pc = "exited" /\ exitCode = << 0 >>) =>
    Cardinality(OpsAt({"call", "run"})) = Cardinality(NonBlank)

(* C21 amended: the probe does not consume the first line.  Over a         *)
(* successful run the backend is invoked for the probe request on the tile *)
(* of the first line, the result is written nowhere, and the loop then     *)
(* issues one request for every coordinate line, the first included: the   *)
(* tile of the first line is rendered twice.  A request takes one          *)
(* invocation (two in the memoized script when the in-process call throws  *)
(* and a subprocess takes over), so render_raster_tiles.js makes one       *)
(* invocation more than there are coordinate lines.                        *)
C21_ProbeThenEveryLine ==
  (pc = "exited" /\ exitCode = << 0 >>) =>
    /\ \A r \in {0} \cup NonBlank :
         /\ Renders(r) # {}
         /\ Cardinality(Renders(r)) <= 2
         /\ script = "api" => Cardinality(Renders(r)) = 1
         /\ \A k \in Renders(r) :
              log[k].tile = ParseLine(lines[IF r = 0 THEN 1 ELSE r])
    /\ \A k \in OpsAt({"call", "run"}) : log[k].req \in {0} \cup NonBlank
    /\ \A k \in OpsAt({"write"}) : log[k].req # 0
    /\ script = "api" =>
         Cardinality(OpsAt({"call"})) = Cardinality(NonBlank) + 1

\* a one-line list: the same tile was rendered by the probe and by the loop
C21_Witness ==
  /\ script = "api"
  /\ pc = "exited"
  /\ exitCode = << 0 >>
  /\ Len(lines) = 1
  /\ \E k \in Renders(0), m \in Renders(1) :
       /\ log[k].tile = log[m].tile
       /\ log[k].tile # <<NaN, NaN, NaN>>
  /\ Cardinality(OpsAt({"return"})) = 2

----------------------------------------------------------------------------
\* the step hands the style to the backend: it appends an in-process call
CallsBackend ==
  \E k \in (Len(log) + 1)..Len(log') : log'[k].op = "call"

(* C22: when the glyph server is enabled, every step that invokes the      *)
(* backend, the probe first, finds the server listening on the port the OS *)
(* gave it and the style's glyphs rewritten to the loopback URL with that  *)
(* port; the glyph block is over before any invocation, and from the first *)
(* invocation on neither the glyphs field nor the port changes, so no      *)
(* invocation receives the style with its original glyphs URL.             *)
C22_RewrittenBeforeFirstInvocation ==
  [][ /\ CallsBackend =>
           /\ pc \notin {"start", "style", "glyphs"}
           /\ ServerStarted(glyphArgs) =>
                /\ glyphServer = "listening"
                /\ listenPort \in Ports
                /\ styleGlyphs = "local"
                /\ urlPort = listenPort
      /\ OpsAt({"call"}) # {} =>
           UNCHANGED << glyphArgs, styleGlyphs, urlPort, listenPort >> ]_vars

\* the server got the second port, the probe and a tile were rendered
C22_Witness ==
  /\ script = "api"
  /\ ServerStarted(glyphArgs)
  /\ listenPort = 49153
  /\ urlPort = 49153
  /\ styleGlyphs = "local"
  /\ \E k \in OpsAt({"call"}), m \in OpsAt({"call"}) :
       log[k].req = 0 /\ log[m].req >= 1

----------------------------------------------------------------------------
(* C23: a glyph request that arrives while a backend invocation is pending *)
(* is answered without waiting for the render loop: as long as a request   *)
(* waits, main() is suspended at its await with the server listening, so   *)
(* the handler can run, and no run ends with the request unanswered and    *)
(* the invocation incomplete.                                              *)
C23_WaitingRequestAnswered ==
  glyphWaiting =>
    /\ pc = "pending"
    /\ glyphServer = "listening"
    /\ EventLoopFree

\* what holds of C23: while the process runs, a waiting request is never
\* blocked by the render loop
GlyphHandlerNeverBlocked ==
  (glyphWaiting /\ pc # "exited") =>
    /\ pc = "pending"
    /\ glyphServer = "listening"
    /\ EventLoopFree

----------------------------------------------------------------------------
\* the TileCoordinate invariant: 0 <= x < 2^zoom and 0 <= y < 2^zoom
ValidTile(t) ==
  /\ t[1] >= 0
  /\ t[2] >= 0
  /\ t[3] >= 0
  /\ t[2] < 2 ^ t[1]
  /\ t[3] < 2 ^ t[1]

(* C24: every tile coordinate handed to the rendering backend (in-process  *)
(* call or subprocess run) or used to build an output path satisfies the   *)
(* TileCoordinate invariant, whatever the tile-list file holds.            *)
C24_OnlyValidTilesRendered ==
  /\ \A k \in OpsAt({"call", "run", "write"}) : ValidTile(log[k].tile)
  /\ \A p \in DOMAIN files : ValidTile(p)

----------------------------------------------------------------------------
(* C25: for every valid tile (z, x, y) the box returned by tileBBox has    *)
(* west < east and south < north, and for z >= 1 it is contained in the    *)
(* box of the parent tile (z-1, floor(x/2), floor(y/2)).                   *)
C25_BoxOrderedAndNested ==
  bbOut # <<>> =>
    LET b == bbOut[1]
        z == bbTile[1]
        x == bbTile[2]
        y == bbTile[3]
    IN /\ b[1] < b[3]
       /\ b[2] < b[4]
       /\ z >= 1 =>
            LET parent == tileBBox(z - 1, x \div 2, y \div 2) IN
            /\ parent[1] <= b[1]
            /\ b[3] <= parent[3]
            /\ parent[2] <= b[2]
            /\ b[4] <= parent[4]

\* the box of tile 3/5/6, in the southern half of its parent 2/2/3
C25_Witness ==
  /\ bbTile = <<3, 5, 6>>
  /\ bbOut = << << 45000000, -79171335, 90000000, -66513260 >> >>

----------------------------------------------------------------------------
(* C26: a progress line is printed exactly when the number of tiles        *)
(* rendered and written so far reaches a multiple of 500, and the count it *)
(* shows is that number of tiles, also when the list has blank lines.      *)
C26_ProgressEvery500Tiles ==
  /\ \A k \in 1..Len(prOut) :
       /\ prOut[k].shown = prOut[k].written
       /\ prOut[k].written % BatchSize = 0
  /\ \A m \in 1..(prWritten \div BatchSize) :
       \E k \in 1..Len(prOut) : prOut[k].written = m * BatchSize

----------------------------------------------------------------------------
(* Vocabulary of the properties of fetch_glyphs *)

\* the (stack, range) pairs of a run, counted stack by stack
TotalPairs == Len(ftStacks) * Len(ftRanges)

\* the stack and the range of the k-th pair
StackOfPair(k) == ftStacks[((k - 1) \div Len(ftRanges)) + 1]
RangeOfPair(k) == ftRanges[((k - 1) % Len(ftRanges)) + 1]

\* the entries of the history made for the k-th pair with an op of S
PairOps(k, S) ==
  { j \in 1..Len(ftOps) : ftOps[j].op \in S /\ ftOps[j].at = k - 1 }

FetchEnded(code) == ftPc = "exited" /\ ftExit = << code >>

(* C27: in the glyph fetch script every (stack, range) pair gets exactly   *)
(* one outcome, in loop order: "cached" (the file was there: nothing       *)
(* fetched, nothing written), "downloaded" (fetched and written) or        *)
(* "miss:<reason>" (fetched, nothing written).  A failed fetch never ends  *)
(* the run: only a missing or unreadable style or a failing mkdir does.    *)
(* The manifest is written once, after the outcome of the last pair; a     *)
(* style that names no font ends the run before anything is written.       *)
C27_MissIsNotFatal ==
  /\ Len(ftResults) <= TotalPairs
  /\ \A k \in 1..Len(ftResults) :
       LET r == ftResults[k]
           t == << r.stack, r.range >>
       IN /\ r.stack = StackOfPair(k)
          /\ r.range = RangeOfPair(k)
          /\ r.status \in Statuses
          /\ \A j \in PairOps(k, {"fetch", "write"}) : ftOps[j].target = t
          /\ r.status = "cached" =>
               /\ PairOps(k, {"fetch", "write"}) = {}
               /\ t \in ftFs
          /\ r.status = "downloaded" =>
               /\ Cardinality(PairOps(k, {"fetch"})) = 1
               /\ Cardinality(PairOps(k, {"write"})) = 1
               /\ t \in ftFs
          /\ r.status \in {"miss:404", "miss:fetch failed"} =>
               /\ Cardinality(PairOps(k, {"fetch"})) = 1
               /\ PairOps(k, {"write"}) = {}
  /\ \A j \in 1..Len(ftOps) :
       ftOps[j].op \in {"fetch", "write"} => ftOps[j].at < Len(ftResults)
  /\ \A i \in 1..Len(ftOps), j \in 1..Len(ftOps) :
       (ftOps[i].op = "write" /\ ftOps[j].op = "write" /\ i # j) =>
         ftOps[i].target # ftOps[j].target
  /\ FetchEnded(1) =>
       \/ ~ftStyle.readable
       \/ ftOps # <<>> /\ ftOps[Len(ftOps)].op = "mkdirfail"
  /\ Len(ftManifest) <= 1
  /\ Len(ftManifest) = 1 =>
       /\ FetchEnded(0)
       /\ Len(ftResults) = TotalPairs
       /\ ftManifest[1] = [ranges |-> ftRanges, stacks |-> ftStacks]
  /\ FetchEnded(0) =>
       IF ftStacks = <<>>
         THEN ftResults = <<>> /\ ftOps = <<>> /\ ftManifest = <<>>
         ELSE Len(ftResults) = TotalPairs /\ Len(ftManifest) = 1

\* a finished run in which a miss was followed by a download, with a cached
\* pair as well
C27_Witness ==
  /\ FetchEnded(0)
  /\ Len(ftManifest) = 1
  /\ \E k \in 1..Len(ftResults), m \in 1..Len(ftResults), n \in 1..Len(ftResults) :
       /\ k < m
       /\ ftResults[k].status = "miss:404"
       /\ ftResults[m].status = "downloaded"
       /\ ftResults[n].status = "cached"

----------------------------------------------------------------------------
(* C28: with the memoized out-of-process strategy the bytes taken for a    *)
(* tile are the output of the subprocess spawned for that tile: a PNG      *)
(* written after a run of the template holds the bytes that run produced,  *)
(* and a candidate is accepted on the file its own trial wrote, never on   *)
(* what an earlier candidate or an earlier tile left in the shared outPng. *)
C28_OutputOfOwnInvocation ==
  /\ \A k \in OpsAt({"write"}), j \in OpsAt({"run"}) :
       (j < k /\ log[j].req = log[k].req) => log[k].bytes = j
  /\ JustAccepted => tmpPng = << Len(log) >>

----------------------------------------------------------------------------
\* the process has ended: with 0 after the final report, every coordinate
\* line written; with 1 when a render request failed
Terminated ==
  /\ pc = "exited"
  /\ exitCode \in { << 0 >>, << 1 >>, << 2 >> }
  /\ exitCode = << 0 >> =>
       /\ OpsAt({"done"}) # {}
       /\ \A i \in NonBlank : \E k \in OpsAt({"write"}) : log[k].req = i
  /\ OpsAt({"fail"}) # {} => exitCode = << 1 >>

(* C29: when every backend invocation returns, the run terminates: the     *)
(* process eventually exits, with code 0 after the last tile is written or *)
(* with a non-zero code on failure, also when the glyph server was started *)
(* and a client connection is still open at the end of the loop.           *)
C29_RunTerminates == <>Terminated

\* a connection outlived close(): it ended afterwards and the process exited
C29_Witness ==
  /\ pc = "exited"
  /\ exitCode = << 0 >>
  /\ glyphServer = "closed"
  /\ glyphServed >= 1
  /\ log[Len(log)].op = "hangup"
  /\ log[Len(log) - 1].op = "done"

====
